---- MODULE Spec2Model ----
(***************************************************************************)
(* Model of the alexa-skills-kit-golang request pipeline: the Alexa        *)
(* dispatcher (ProcessRequest), its two validators (verifyApplicationID,   *)
(* verifyTimestamp), the process-wide timestampTolerance and the Response  *)
(* builder methods that the RequestHandler callbacks use.                  *)
(*                                                                         *)
(* A Go pointer is modelled as a sequence of length 0 (nil) or 1 (the      *)
(* pointee); a Go map that may be nil likewise.  Times are counted in      *)
(* units of 1/Res second, so that sub-second differences exist.            *)
(***************************************************************************)
EXTENDS Integers, Sequences, FiniteSets, TLC

\* ---------------------------------------------------------------- bounds
\* clock units per second
Res == 2
\* latest reading of the wall clock, in clock units after Epoch
MaxTicks == 1
\* number of Response mutations the handler performs during one call
MaxOps == 1
\* number of builder calls made on one Response
MaxCalls == 3

\* ------------------------------------------------------------- constants
sdkVersion == "1.0"
launchRequestName == "LaunchRequest"
intentRequestName == "IntentRequest"
sessionEndedRequestName == "SessionEndedRequest"
\* initial value of the package variable timestampTolerance
DefaultTimestampTolerance == 150

\* error values; NoErr is Go's nil error
NoErr == "nil"
ErrRequestEnvelopeNil == "request envelope was nil"
ErrAppIDEmpty == "application ID was set to an empty string"
ErrRequestAppIDEmpty == "request Application ID was set to an empty string"
ErrAppIDMismatch == "request Application ID does not match expected ApplicationId"
ErrTimestampParse == "unable to parse request timestamp"
ErrTimestampInvalid == "invalid Timestamp"
IdentityErrors == {ErrAppIDEmpty, ErrRequestAppIDEmpty, ErrAppIDMismatch}
TimestampErrors == {ErrTimestampParse, ErrTimestampInvalid}

\* the four RequestHandler callbacks
Lifecycle == {"OnLaunch", "OnIntent", "OnSessionEnded"}
Callbacks == {"OnSessionStarted"} \cup Lifecycle
\* the error a failing callback returns (alexa_test.go: "Error in OnIntent", ...)
CallbackErr(cb) == "Error in " \o cb

\* -------------------------------------------------------------- pointers
Nil == <<>>
Ptr(v) == <<v>>
IsNil(p) == Len(p) = 0
Deref(p) == p[1]

Abs(x) == IF x < 0 THEN -x ELSE x

\* ------------------------------------------------------------ input sets
\* the earliest reading of the wall clock, in seconds
Epoch == 1000
\* what time.Now() may return, in clock units
Nows == {Epoch * Res + i : i \in 0..MaxTicks}
AppIDs == {"", "amzn1.ask.skill.ABC123", "amzn1.ask.skill.ABC123456"}
RequestAppIDs == {"", "amzn1.ask.skill.ABC123"}
RequestTypes == {launchRequestName, intentRequestName, sessionEndedRequestName,
                 "AudioPlayer.PlaybackStarted"}
\* Request.Timestamp: an RFC3339 text naming a whole second (given relative
\* to Epoch), or a text that is no RFC3339 time (alexa_test.go:135)
Offsets == {-151, -150, -1, 0, 150, 151}
Timestamps ==
    [layout : {"RFC3339"}, sec : {Epoch + d : d \in Offsets}]
    \cup {[layout |-> "UNPARSEABLE", sec |-> 0]}
Tolerances == {DefaultTimestampTolerance, 0, -1}
\* Session.Attributes.String, a map held as its set of <<key, value>> pairs:
\* a nil map, or a map with an entry the handler leaves alone and one it
\* overwrites
AttributeInputs == {Nil, Ptr({<<"k1", "v1">>, <<"myNewAttr", "Old">>})}

Sessions ==
    [New : BOOLEAN, Attributes : AttributeInputs, ApplicationID : RequestAppIDs]
Requests == [Timestamp : Timestamps, Type : RequestTypes]
Envelopes ==
    [Version : {"1.0"},
     Session : {Nil} \cup {Ptr(s) : s \in Sessions},
     Request : {Nil} \cup {Ptr(r) : r \in Requests},
     Context : {Nil}]
AlexaConfigs ==
    [ApplicationID : AppIDs, IgnoreApplicationID : BOOLEAN, IgnoreTimestamp : BOOLEAN]

\* ------------------------------------------------------ Response builder
NewResponse ==
    [OutputSpeech |-> Nil, Card |-> Nil, Reprompt |-> Nil, Directives |-> <<>>,
     ShouldSessionEnd |-> FALSE]

OutputSpeech(type, text, ssml) == [Type |-> type, Text |-> text, SSML |-> ssml]
Card(type, title, content, text, image) ==
    [Type |-> type, Title |-> title, Content |-> content, Text |-> text, Image |-> image]
Image(small, large) == [SmallImageURL |-> small, LargeImageURL |-> large]

\* mutant: an existing card is updated in place
SetSimpleCard_merging(r, title, content) ==
    [r EXCEPT !.Card =
        IF IsNil(@) THEN Ptr(Card("Simple", title, content, "", Nil))
        ELSE Ptr([Deref(@) EXCEPT !.Type = "Simple", !.Title = title,
                                  !.Content = content])]

SetSimpleCard(r, title, content) ==
    [r EXCEPT !.Card = Ptr(Card("Simple", title, content, "", Nil))]

SetStandardCard(r, title, text, smallImageURL, largeImageURL) ==
    [r EXCEPT !.Card =
        Ptr(Card("Standard", title, "", text, Ptr(Image(smallImageURL, largeImageURL))))]

SetLinkAccountCard(r) ==
    [r EXCEPT !.Card = Ptr(Card("LinkAccount", "", "", "", Nil))]

\* mutant: the text is added to the text already there
SetOutputText_appends(r, text) ==
    [r EXCEPT !.OutputSpeech =
        Ptr(OutputSpeech("PlainText",
                         (IF IsNil(@) THEN "" ELSE Deref(@).Text) \o text, ""))]

SetOutputText(r, text) ==
    [r EXCEPT !.OutputSpeech = Ptr(OutputSpeech("PlainText", text, ""))]

\* mutant: the Text of an existing output speech is kept
SetOutputSSML_keepsText(r, ssml) ==
    [r EXCEPT !.OutputSpeech =
        Ptr(OutputSpeech("SSML", IF IsNil(@) THEN "" ELSE Deref(@).Text, ssml))]

SetOutputSSML(r, ssml) ==
    [r EXCEPT !.OutputSpeech = Ptr(OutputSpeech("SSML", "", ssml))]

SetRepromptText(r, text) ==
    [r EXCEPT !.Reprompt = Ptr([OutputSpeech |-> Ptr(OutputSpeech("PlainText", text, ""))])]

\* mutant: the speech is stored in the OutputSpeech of the Response
SetRepromptSSML_setsOutputSpeech(r, ssml) ==
    [r EXCEPT !.Reprompt = IF IsNil(@) THEN Ptr([OutputSpeech |-> Nil]) ELSE @,
              !.OutputSpeech = Ptr(OutputSpeech("SSML", "", ssml))]

SetRepromptSSML(r, ssml) ==
    [r EXCEPT !.Reprompt = Ptr([OutputSpeech |-> Ptr(OutputSpeech("SSML", "", ssml))])]

AddAudioPlayer(r, playerType, playBehavior, streamToken, url, offsetInMilliseconds) ==
    [r EXCEPT !.Directives = Append(@,
        [Kind |-> "AudioPlayerDirective", Type |-> playerType, PlayBehavior |-> playBehavior,
         AudioItem |-> Ptr([Stream |-> [Token |-> streamToken, URL |-> url,
                                        OffsetInMilliseconds |-> offsetInMilliseconds]]),
         SlotToElicit |-> "", SlotToConfirm |-> "", UpdatedIntent |-> Nil])]

\* mutant: the directive replaces the list
AddDialogDirective_replacing(r, dialogType, slotToElicit, slotToConfirm, intent) ==
    [r EXCEPT !.Directives =
        <<[Kind |-> "DialogDirective", Type |-> dialogType, PlayBehavior |-> "",
           AudioItem |-> Nil,
           SlotToElicit |-> slotToElicit, SlotToConfirm |-> slotToConfirm,
           UpdatedIntent |-> intent]>>]

AddDialogDirective(r, dialogType, slotToElicit, slotToConfirm, intent) ==
    [r EXCEPT !.Directives = Append(@,
        [Kind |-> "DialogDirective", Type |-> dialogType, PlayBehavior |-> "",
         AudioItem |-> Nil,
         SlotToElicit |-> slotToElicit, SlotToConfirm |-> slotToConfirm,
         UpdatedIntent |-> intent])]

\* ------------------------------------------------------------ json.Marshal
\* A JSON object is held as the set of its <<key, value>> members.  A field
\* tagged omitempty is left out when it is the empty string or a nil pointer.
\* json.Marshal of an Intent: name, confirmationStatus (omitempty), slots
marshalIntent(i) ==
    {<<"name", i.Name>>, <<"slots", i.Slots>>}
    \cup (IF i.ConfirmationStatus # ""
          THEN {<<"confirmationStatus", i.ConfirmationStatus>>} ELSE {})

\* mutant: the omitempty options of the DialogDirective tags are missing
marshalDialogDirective_noOmitEmpty(d) ==
    {<<"type", d.Type>>,
     <<"slotToElicit", d.SlotToElicit>>,
     <<"slotToConfirm", d.SlotToConfirm>>,
     <<"updatedIntent", IF IsNil(d.UpdatedIntent) THEN "null"
                        ELSE marshalIntent(Deref(d.UpdatedIntent))>>}

\* json.Marshal of a DialogDirective: type, and slotToElicit, slotToConfirm
\* and updatedIntent, all three omitempty
marshalDialogDirective(d) ==
    {<<"type", d.Type>>}
    \cup (IF d.SlotToElicit # "" THEN {<<"slotToElicit", d.SlotToElicit>>} ELSE {})
    \cup (IF d.SlotToConfirm # "" THEN {<<"slotToConfirm", d.SlotToConfirm>>} ELSE {})
    \cup (IF ~IsNil(d.UpdatedIntent)
          THEN {<<"updatedIntent", marshalIntent(Deref(d.UpdatedIntent))>>} ELSE {})

\* ------------------------------------------------------------- validator
\* mutant: a text that is no RFC3339 time parses, as the zero instant
timeParse_lenient(s) == [err |-> NoErr, t |-> s.sec * Res]

\* time.Parse(time.RFC3339, s): the instant in clock units, or an error
timeParse(s) ==
    IF s.layout = "RFC3339" THEN [err |-> NoErr, t |-> s.sec * Res]
    ELSE [err |-> ErrTimestampParse, t |-> 0]

\* mutant: the comparison of the two IDs is missing
verifyApplicationID_noMismatch(a, request) ==
    IF IsNil(request) THEN ErrRequestEnvelopeNil
    ELSE LET appID == a.ApplicationID
             requestAppID == Deref(Deref(request).Session).ApplicationID
         IN  IF appID = "" THEN ErrAppIDEmpty
             ELSE IF requestAppID = "" THEN ErrRequestAppIDEmpty
             ELSE NoErr

\* mutant: the two tests for an empty ID are missing
verifyApplicationID_noEmptyChecks(a, request) ==
    IF IsNil(request) THEN ErrRequestEnvelopeNil
    ELSE LET appID == a.ApplicationID
             requestAppID == Deref(Deref(request).Session).ApplicationID
         IN  IF appID # requestAppID THEN ErrAppIDMismatch
             ELSE NoErr

\* verifyApplicationID of a request envelope whose Session is present
verifyApplicationID(a, request) ==
    IF IsNil(request) THEN ErrRequestEnvelopeNil
    ELSE LET appID == a.ApplicationID
             requestAppID == Deref(Deref(request).Session).ApplicationID
         IN  IF appID = "" THEN ErrAppIDEmpty
             ELSE IF requestAppID = "" THEN ErrRequestAppIDEmpty
             ELSE IF appID # requestAppID THEN ErrAppIDMismatch
             ELSE NoErr

\* mutant: a distance equal to the tolerance is rejected (>= for >)
verifyTimestamp_atLeast(request, now, tolerance) ==
    IF IsNil(request) THEN ErrRequestEnvelopeNil
    ELSE LET parsed == timeParse(Deref(Deref(request).Request).Timestamp)
             delta == now - parsed.t
             deltaSecsAbs == Abs(delta)
         IN  IF parsed.err # NoErr THEN parsed.err
             ELSE IF deltaSecsAbs >= tolerance * Res THEN ErrTimestampInvalid
             ELSE NoErr

\* mutant: the comparison is against the magnitude of the tolerance
verifyTimestamp_absTolerance(request, now, tolerance) ==
    IF IsNil(request) THEN ErrRequestEnvelopeNil
    ELSE LET parsed == timeParse(Deref(Deref(request).Request).Timestamp)
             delta == now - parsed.t
             deltaSecsAbs == Abs(delta)
         IN  IF parsed.err # NoErr THEN parsed.err
             ELSE IF deltaSecsAbs > Abs(tolerance) * Res THEN ErrTimestampInvalid
             ELSE NoErr

\* verifyTimestamp of a request envelope whose Request is present; now is the
\* reading of time.Now() and tolerance the reading of timestampTolerance
verifyTimestamp(request, now, tolerance) ==
    IF IsNil(request) THEN ErrRequestEnvelopeNil
    ELSE LET parsed == timeParse(Deref(Deref(request).Request).Timestamp)
             delta == now - parsed.t
             deltaSecsAbs == Abs(delta)
         IN  IF parsed.err # NoErr THEN parsed.err
             ELSE IF deltaSecsAbs > tolerance * Res THEN ErrTimestampInvalid
             ELSE NoErr

\* ------------------------------------------------------------------ state
VARIABLES
    timestampTolerance, \* the package variable: seconds
    pc,                 \* position of the ProcessRequest call
    alexa,              \* the receiver of the call
    requestEnv,         \* the call's argument: a pointer to a RequestEnvelope
    responseEnv,        \* the call's local responseEnv: a pointer
    ret,                \* what the call returned: [resp, err]
    invoked,            \* the callbacks invoked by the call, in order
    vt,                 \* verifyTimestamp's readings of time.Now() and the tolerance
    opsDone,            \* the Response members the handler wrote during the call
    entryTolerance,     \* timestampTolerance as it was when the call was entered,
                        \* kept until the timestamp check reads the variable
    built,              \* a Response that its builder methods are called on
    calls               \* the builder calls made on it, in order

vars == <<timestampTolerance, pc, alexa, requestEnv, responseEnv, ret,
          invoked, vt, opsDone, entryTolerance, built, calls>>
\* the Response under construction and its call log
builderVars == <<built, calls>>
\* the state of the dispatcher
dispatcherVars == <<timestampTolerance, pc, alexa, requestEnv, responseEnv, ret,
                    invoked, vt, opsDone, entryTolerance>>

NoReturn == [resp |-> Nil, err |-> NoErr]
NoReading == [ran |-> FALSE, now |-> 0, tolerance |-> 0]

Init ==
    /\ timestampTolerance = DefaultTimestampTolerance
    /\ pc = "idle"
    /\ alexa = [ApplicationID |-> "", IgnoreApplicationID |-> FALSE,
                IgnoreTimestamp |-> FALSE]
    /\ requestEnv = Nil
    /\ responseEnv = Nil
    /\ ret = NoReturn
    /\ invoked = <<>>
    /\ vt = NoReading
    /\ opsDone = <<>>
    /\ entryTolerance = Nil
    /\ built = NewResponse
    /\ calls = <<>>

\* mutant: the response built so far is returned along with the error
ReturnErr_keepsResponse(err) ==
    /\ pc' = "returned"
    /\ ret' = [resp |-> responseEnv, err |-> err]

\* return nil, err
ReturnErr(err) ==
    /\ pc' = "returned"
    /\ ret' = [resp |-> Nil, err |-> err]

\* a nil pointer dereference: the call ends in a run-time panic
Panic ==
    /\ pc' = "panicked"
    /\ ret' = NoReturn

\* the session and request of the envelope of the call
session == Deref(Deref(requestEnv).Session)
request == Deref(Deref(requestEnv).Request)

\* ------------------------------------------------------------ dispatcher
\* mutant: the error of verifyApplicationID is dropped
applicationIDCheck_unchecked(a, env) == NoErr

\* the application-ID check of ProcessRequest: skipped when disabled
applicationIDCheck(a, env) ==
    IF ~a.IgnoreApplicationID THEN verifyApplicationID(a, env) ELSE NoErr

\* mutant: the nil check of the envelope at entry is missing, so that a nil
\* envelope is caught by whichever validator runs, or by nothing
ProcessRequest_noNilCheck(a, env) ==
    /\ pc = "idle"
    /\ alexa' = a
    /\ requestEnv' = env
    /\ responseEnv' = Nil
    /\ invoked' = <<>>
    /\ vt' = NoReading
    /\ opsDone' = <<>>
    /\ IF IsNil(env)
       THEN IF ~a.IgnoreApplicationID \/ ~a.IgnoreTimestamp
            THEN ReturnErr(ErrRequestEnvelopeNil) ELSE Panic
       ELSE IF ~a.IgnoreApplicationID /\ IsNil(Deref(env).Session) THEN Panic
       ELSE LET err == applicationIDCheck(a, env)
            IN  IF err # NoErr THEN ReturnErr(err)
                ELSE pc' = "verifyTimestamp" /\ ret' = NoReturn
    /\ entryTolerance' = IF pc' = "verifyTimestamp" THEN Ptr(timestampTolerance)
                          ELSE Nil
    /\ UNCHANGED <<timestampTolerance, builderVars>>

\* ProcessRequest, entry: the nil check and the application-ID check
ProcessRequest(a, env) ==
    /\ pc = "idle"
    /\ alexa' = a
    /\ requestEnv' = env
    /\ responseEnv' = Nil
    /\ invoked' = <<>>
    /\ vt' = NoReading
    /\ opsDone' = <<>>
    /\ IF IsNil(env) THEN ReturnErr(ErrRequestEnvelopeNil)
       ELSE IF ~a.IgnoreApplicationID /\ IsNil(Deref(env).Session) THEN Panic
       ELSE LET err == applicationIDCheck(a, env)
            IN  IF err # NoErr THEN ReturnErr(err)
                ELSE pc' = "verifyTimestamp" /\ ret' = NoReturn
    /\ entryTolerance' = IF pc' = "verifyTimestamp" THEN Ptr(timestampTolerance)
                          ELSE Nil
    /\ UNCHANGED <<timestampTolerance, builderVars>>

\* mutant: the timestamp check is skipped on the application-ID flag
timestampCheck_wrongFlag(a, env, now, tolerance) ==
    IF ~a.IgnoreApplicationID /\ ~IsNil(Deref(env).Request)
    THEN verifyTimestamp(env, now, tolerance) ELSE NoErr

\* mutant: the check compares against the default, not the package variable
timestampCheck_defaultTolerance(a, env, now, tolerance) ==
    IF ~a.IgnoreTimestamp
    THEN verifyTimestamp(env, now, DefaultTimestampTolerance) ELSE NoErr

\* the timestamp check of ProcessRequest: skipped when disabled
timestampCheck(a, env, now, tolerance) ==
    IF ~a.IgnoreTimestamp THEN verifyTimestamp(env, now, tolerance) ELSE NoErr

\* ProcessRequest, the timestamp check; now is what time.Now() returns
VerifyTimestamp(now) ==
    /\ pc = "verifyTimestamp"
    /\ IF ~alexa.IgnoreTimestamp /\ IsNil(Deref(requestEnv).Request)
       THEN Panic /\ vt' = vt
       ELSE LET err == timestampCheck(alexa, requestEnv, now, timestampTolerance)
            IN  /\ vt' = IF ~alexa.IgnoreTimestamp
                          THEN [ran |-> TRUE, now |-> now,
                                tolerance |-> timestampTolerance]
                          ELSE vt
                /\ IF err # NoErr THEN ReturnErr(err)
                   ELSE pc' = "prepare" /\ ret' = ret
    /\ entryTolerance' = Nil
    /\ UNCHANGED <<timestampTolerance, alexa, requestEnv, responseEnv,
                   invoked, opsDone, builderVars>>

\* mutant: the nil check of the attribute map is missing
defaultAttributes_keepsNil(attributes) == attributes

\* mutant: the attribute map is replaced whether it is nil or not
defaultAttributes_alwaysEmpty(attributes) == Ptr({})

\* session.Attributes.String after the nil check of the prepare step
defaultAttributes(attributes) ==
    IF IsNil(attributes) THEN Ptr({}) ELSE attributes

\* mutant: ShouldSessionEnd is left at its zero value
newResponseEnvelope_noDefault ==
    [Version |-> sdkVersion, SessionAttributes |-> Nil, Response |-> NewResponse]

\* mutant: the Version of the envelope is not set
newResponseEnvelope_noVersion ==
    [Version |-> "", SessionAttributes |-> Nil,
     Response |-> [NewResponse EXCEPT !.ShouldSessionEnd = TRUE]]

\* the ResponseEnvelope a call starts from
newResponseEnvelope ==
    [Version |-> sdkVersion, SessionAttributes |-> Nil,
     Response |-> [NewResponse EXCEPT !.ShouldSessionEnd = TRUE]]

\* ProcessRequest invokes callback cb of the RequestHandler
Invoke(cb) ==
    /\ pc' = cb
    /\ invoked' = Append(invoked, cb)

\* mutant: OnSessionStarted is selected for every session
sessionStartTarget_always(s) == "OnSessionStarted"

\* the callback the test of session.New selects, "" for none
sessionStartTarget(s) == IF s.New THEN "OnSessionStarted" ELSE ""

\* ProcessRequest, prepare: default the session attributes, create the
\* response envelope, and invoke OnSessionStarted for a new session
Prepare ==
    /\ pc = "prepare"
    /\ IF IsNil(Deref(requestEnv).Session)
       THEN Panic /\ UNCHANGED <<requestEnv, responseEnv, invoked>>
       ELSE /\ requestEnv' = Ptr([Deref(requestEnv) EXCEPT !.Session =
                   Ptr([session EXCEPT !.Attributes = defaultAttributes(@)])])
            /\ responseEnv' = Ptr(newResponseEnvelope)
            /\ ret' = ret
            /\ LET cb == sessionStartTarget(session)
               IN  IF cb # "" THEN Invoke(cb)
                   ELSE pc' = "dispatch" /\ invoked' = invoked
    /\ UNCHANGED <<timestampTolerance, alexa, vt, opsDone, entryTolerance,
                   builderVars>>

\* mutant: the launch and intent cases are swapped
dispatchTarget_swapped(type) ==
    CASE type = launchRequestName -> "OnIntent"
      [] type = intentRequestName -> "OnLaunch"
      [] type = sessionEndedRequestName -> "OnSessionEnded"
      [] OTHER -> ""

\* mutant: an unrecognised type falls into the intent case
dispatchTarget_defaultIntent(type) ==
    CASE type = launchRequestName -> "OnLaunch"
      [] type = sessionEndedRequestName -> "OnSessionEnded"
      [] OTHER -> "OnIntent"

\* the callback the switch on Request.Type selects, "" for none
dispatchTarget(type) ==
    CASE type = launchRequestName -> "OnLaunch"
      [] type = intentRequestName -> "OnIntent"
      [] type = sessionEndedRequestName -> "OnSessionEnded"
      [] OTHER -> ""

\* mutant: the lifecycle callback is handed a Response of its own
Dispatch_freshResponse ==
    /\ pc = "dispatch"
    /\ IF IsNil(Deref(requestEnv).Request)
       THEN Panic /\ invoked' = invoked /\ responseEnv' = responseEnv
       ELSE /\ ret' = ret
            /\ LET cb == dispatchTarget(request.Type)
               IN  IF cb # ""
                   THEN Invoke(cb) /\ responseEnv' = Ptr(newResponseEnvelope)
                   ELSE /\ pc' = "finalize" /\ invoked' = invoked
                        /\ responseEnv' = responseEnv
    /\ UNCHANGED <<timestampTolerance, alexa, requestEnv,
                   vt, opsDone, entryTolerance, builderVars>>

\* ProcessRequest, the switch on the request type
Dispatch ==
    /\ pc = "dispatch"
    /\ IF IsNil(Deref(requestEnv).Request)
       THEN Panic /\ invoked' = invoked
       ELSE /\ ret' = ret
            /\ LET cb == dispatchTarget(request.Type)
               IN  IF cb # "" THEN Invoke(cb)
                   ELSE pc' = "finalize" /\ invoked' = invoked
    /\ UNCHANGED <<timestampTolerance, alexa, requestEnv, responseEnv,
                   vt, opsDone, entryTolerance, builderVars>>

\* mutant: the fresh map is made and the copying loop is missing
copyAttributes_emptyMap(attributes) == Ptr({})

\* the copy of the session attributes into a fresh map
copyAttributes(attributes) ==
    Ptr({<<p[1], p[2]>> : p \in Deref(attributes)})

\* ProcessRequest, finalize: copy the session attributes and return
Finalize ==
    /\ pc = "finalize"
    /\ LET env == [Deref(responseEnv) EXCEPT
                      !.SessionAttributes = copyAttributes(session.Attributes)]
       IN  /\ responseEnv' = Ptr(env)
           /\ ret' = [resp |-> Ptr(env), err |-> NoErr]
    /\ pc' = "returned"
    /\ UNCHANGED <<timestampTolerance, alexa, requestEnv, invoked, vt,
                   opsDone, entryTolerance, builderVars>>

\* The package variable is read by the timestamp check and by nothing after
\* it, so its changes are modelled up to that read.
BeforeReading == pc \in {"idle", "verifyTimestamp"}

\* mutant: the setter waits for the call in flight, as under a lock held by
\* ProcessRequest
SetTimestampTolerance_lockedDuringCall(a, seconds) ==
    /\ pc = "idle"
    /\ timestampTolerance' = seconds
    /\ UNCHANGED <<pc, alexa, requestEnv, responseEnv, ret, invoked, vt,
                   opsDone, entryTolerance, builderVars>>

\* a.SetTimestampTolerance(seconds): the receiver a is not used
SetTimestampTolerance(a, seconds) ==
    /\ BeforeReading
    /\ timestampTolerance' = seconds
    /\ UNCHANGED <<pc, alexa, requestEnv, responseEnv, ret, invoked, vt,
                   opsDone, entryTolerance, builderVars>>

\* --------------------------------------------------------------- handler
\* The RequestHandler is the caller's code.  While a callback runs it writes
\* the Response it was handed and the session attributes, as the handlers of
\* alexa_test.go and samples/helloworld do, and then returns nil or an error.
InCallback == pc \in Callbacks /\ Len(opsDone) < MaxOps

response == Deref(responseEnv).Response

\* the handler's write of the Response it was handed
WriteResponse(r, member) ==
    /\ responseEnv' = Ptr([Deref(responseEnv) EXCEPT !.Response = r])
    /\ opsDone' = Append(opsDone, member)
    /\ UNCHANGED <<timestampTolerance, pc, alexa, requestEnv, ret,
                   invoked, vt, entryTolerance, builderVars>>

\* response.SetOutputText("Response Text")
HandlerSetOutputText ==
    /\ InCallback
    /\ WriteResponse(SetOutputText(response, "Response Text"), "OutputSpeech")

\* response.SetSimpleCard("Simple Title", "Simple Content")
HandlerSetSimpleCard ==
    /\ InCallback
    /\ WriteResponse(SetSimpleCard(response, "Simple Title", "Simple Content"), "Card")

\* response.AddAudioPlayer("AudioPlayer.Play", "REPLACE_ALL", ...)
HandlerAddAudioPlayer ==
    /\ InCallback
    /\ WriteResponse(AddAudioPlayer(response, "AudioPlayer.Play", "REPLACE_ALL",
                        "track2-long-audio", "https://sample-song-2.mp3", 100),
                     "Directives")

\* response.ShouldSessionEnd = false
HandlerSetShouldSessionEnd ==
    /\ InCallback
    /\ WriteResponse([response EXCEPT !.ShouldSessionEnd = FALSE], "ShouldSessionEnd")

\* the map after m[k] = v
mapSet(m, k, v) == {p \in m : p[1] # k} \cup {<<k, v>>}

\* s.Attributes.String["myNewAttr"] = "Set123"
HandlerSetAttribute ==
    /\ InCallback
    /\ requestEnv' = Ptr([Deref(requestEnv) EXCEPT !.Session =
           Ptr([session EXCEPT !.Attributes =
                  Ptr(mapSet(Deref(@), "myNewAttr", "Set123"))])])
    /\ opsDone' = Append(opsDone, "Attributes")
    /\ UNCHANGED <<timestampTolerance, pc, alexa, responseEnv, ret,
                   invoked, vt, entryTolerance, builderVars>>

\* mutant: the error of OnSessionStarted is not tested
CallbackReturn_dropsSessionStartError(err) ==
    /\ pc \in Callbacks
    /\ IF err # NoErr /\ pc # "OnSessionStarted" THEN ReturnErr(err)
       ELSE /\ pc' = IF pc = "OnSessionStarted" THEN "dispatch" ELSE "finalize"
            /\ ret' = ret
    /\ UNCHANGED <<timestampTolerance, alexa, requestEnv, responseEnv,
                   invoked, vt, opsDone, entryTolerance, builderVars>>

\* the callback returns err to ProcessRequest, which returns nil, err for an
\* error and goes on otherwise
CallbackReturn(err) ==
    /\ pc \in Callbacks
    /\ IF err # NoErr THEN ReturnErr(err)
       ELSE /\ pc' = IF pc = "OnSessionStarted" THEN "dispatch" ELSE "finalize"
            /\ ret' = ret
    /\ UNCHANGED <<timestampTolerance, alexa, requestEnv, responseEnv,
                   invoked, vt, opsDone, entryTolerance, builderVars>>

\* ------------------------------------------------------------ environment
\* the caller has taken the outcome of the call: the call's frame is gone
\* and what is left of the process is the package variable
CallerResumes ==
    /\ pc \in {"returned", "panicked"}
    /\ pc' = "idle"
    /\ alexa' = [ApplicationID |-> "", IgnoreApplicationID |-> FALSE,
                 IgnoreTimestamp |-> FALSE]
    /\ requestEnv' = Nil
    /\ responseEnv' = Nil
    /\ ret' = NoReturn
    /\ invoked' = <<>>
    /\ vt' = NoReading
    /\ opsDone' = <<>>
    /\ UNCHANGED <<timestampTolerance, entryTolerance, builderVars>>

Next ==
    \/ \E a \in AlexaConfigs, env \in {Nil} \cup {Ptr(e) : e \in Envelopes} :
          ProcessRequest(a, env)
    \/ \E now \in Nows : VerifyTimestamp(now)
    \/ Prepare
    \/ Dispatch
    \/ Finalize
    \/ \E a \in AlexaConfigs, seconds \in Tolerances :
          SetTimestampTolerance(a, seconds)
    \/ HandlerSetOutputText
    \/ HandlerSetSimpleCard
    \/ HandlerAddAudioPlayer
    \/ HandlerSetShouldSessionEnd
    \/ HandlerSetAttribute
    \/ \E err \in {NoErr, CallbackErr(pc)} : CallbackReturn(err)
    \/ CallerResumes

Spec == Init /\ [][Next]_vars

\* ------------------------------------------------- the builder on its own
\* The methods of Response, called in any order on one Response by code that
\* holds it.  The arguments are those of the handlers of alexa_test.go and a
\* second value where a claim needs two calls to differ.
OutputTexts == {"Response Text", "Other Text"}
OutputSSMLs == {"<speak>This output speech uses SSML.</speak>"}
RepromptTexts == {"Reprompt Text"}
RepromptSSMLs == {"<speak>This Reprompt speech uses SSML.</speak>"}
StreamTokens == {"track2-long-audio", "track3-long-audio"}
\* an Intent, its Slots held as the set of their keys
DialogIntents ==
    {Nil, Ptr([Name |-> "PlanMyTrip", ConfirmationStatus |-> "NONE",
               Slots |-> {"travelDate"}])}

\* the Response is a fresh one, or the one ProcessRequest hands to a callback
InitBuilder ==
    /\ timestampTolerance = DefaultTimestampTolerance
    /\ pc = "idle"
    /\ alexa = [ApplicationID |-> "", IgnoreApplicationID |-> FALSE,
                IgnoreTimestamp |-> FALSE]
    /\ requestEnv = Nil
    /\ responseEnv = Nil
    /\ ret = NoReturn
    /\ invoked = <<>>
    /\ vt = NoReading
    /\ opsDone = <<>>
    /\ entryTolerance = Nil
    /\ built \in {NewResponse, newResponseEnvelope.Response}
    /\ calls = <<>>

\* the code that holds the Response makes another call
CanCall == Len(calls) < MaxCalls

\* the call op(args) on the Response, which leaves it as r
Call(op, args, r) ==
    /\ built' = r
    /\ calls' = Append(calls, [op |-> op, args |-> args])
    /\ UNCHANGED dispatcherVars

BuilderSetOutputText ==
    /\ CanCall
    /\ \E text \in OutputTexts :
          Call("SetOutputText", <<text>>, SetOutputText(built, text))

BuilderSetOutputSSML ==
    /\ CanCall
    /\ \E ssml \in OutputSSMLs :
          Call("SetOutputSSML", <<ssml>>, SetOutputSSML(built, ssml))

BuilderSetRepromptText ==
    /\ CanCall
    /\ \E text \in RepromptTexts :
          Call("SetRepromptText", <<text>>, SetRepromptText(built, text))

BuilderSetRepromptSSML ==
    /\ CanCall
    /\ \E ssml \in RepromptSSMLs :
          Call("SetRepromptSSML", <<ssml>>, SetRepromptSSML(built, ssml))

BuilderSetSimpleCard ==
    /\ CanCall
    /\ Call("SetSimpleCard", <<"Simple Title", "Simple Content">>,
            SetSimpleCard(built, "Simple Title", "Simple Content"))

BuilderSetStandardCard ==
    /\ CanCall
    /\ Call("SetStandardCard",
            <<"Standard Title", "Standard Body Text", "http://small.url",
              "http://large.url">>,
            SetStandardCard(built, "Standard Title", "Standard Body Text",
                            "http://small.url", "http://large.url"))

BuilderSetLinkAccountCard ==
    /\ CanCall
    /\ Call("SetLinkAccountCard", <<>>, SetLinkAccountCard(built))

BuilderAddAudioPlayer ==
    /\ CanCall
    /\ \E token \in StreamTokens :
          Call("AddAudioPlayer",
               <<"AudioPlayer.Play", "REPLACE_ALL", token,
                 "https://my-audio-hosting-site.com/audio/sample-song-2.mp3", 100>>,
               AddAudioPlayer(built, "AudioPlayer.Play", "REPLACE_ALL", token,
                   "https://my-audio-hosting-site.com/audio/sample-song-2.mp3", 100))

BuilderAddDialogDirective ==
    /\ CanCall
    /\ \E intent \in DialogIntents :
          Call("AddDialogDirective", <<"Dialog.Delegate", "", "", intent>>,
               AddDialogDirective(built, "Dialog.Delegate", "", "", intent))

NextBuilder ==
    \/ BuilderSetOutputText
    \/ BuilderSetOutputSSML
    \/ BuilderSetRepromptText
    \/ BuilderSetRepromptSSML
    \/ BuilderSetSimpleCard
    \/ BuilderSetStandardCard
    \/ BuilderSetLinkAccountCard
    \/ BuilderAddAudioPlayer
    \/ BuilderAddDialogDirective

SpecBuilder == InitBuilder /\ [][NextBuilder]_vars

\* ================================================================= claims
\* vocabulary of the claims, stated on the inputs of the call
HasEnvelope == pc # "idle" /\ ~IsNil(requestEnv)
HasSession == HasEnvelope /\ ~IsNil(Deref(requestEnv).Session)
HasRequest == HasEnvelope /\ ~IsNil(Deref(requestEnv).Request)
\* both application IDs are non-empty and equal
IDsMatch ==
    /\ alexa.ApplicationID # ""
    /\ session.ApplicationID # ""
    /\ alexa.ApplicationID = session.ApplicationID
Parseable == request.Timestamp.layout = "RFC3339"
\* |now - timestamp| in clock units
Distance(now) == Abs(now - request.Timestamp.sec * Res)
\* the clock and tolerance readings of the call; when the timestamp check did
\* not run, every reading it could have made
NowsRead == IF vt.ran THEN {vt.now} ELSE Nows
ToleranceRead == IF vt.ran THEN vt.tolerance ELSE timestampTolerance
IsLifecycle(cb) == cb \in Lifecycle
WasInvoked(cb) == \E i \in DOMAIN invoked : invoked[i] = cb
Validated == ~IsNil(responseEnv)
CallbackErrors == {CallbackErr(cb) : cb \in Callbacks}
DefaultResponse ==
    [OutputSpeech |-> Nil, Card |-> Nil, Reprompt |-> Nil, Directives |-> <<>>,
     ShouldSessionEnd |-> TRUE]

\* the enabled application-ID check fails on the inputs of the call
IdentityCheckFails ==
    HasSession /\ ~alexa.IgnoreApplicationID /\ ~IDsMatch
\* the enabled timestamp check ran and fails on its readings
TimestampCheckFails ==
    vt.ran /\ (~Parseable \/ Distance(vt.now) > vt.tolerance * Res)

\* C1: validation precedes dispatch.  In every state of a call whose enabled
\* application-ID check or enabled timestamp check fails, the call has
\* returned that validation error with a nil response and no RequestHandler
\* callback has been invoked.
C1_ValidationPrecedesDispatch ==
    (IdentityCheckFails \/ TimestampCheckFails) =>
        /\ pc = "returned"
        /\ invoked = <<>>
        /\ IsNil(ret.resp)
        /\ ret.err \in (IF IdentityCheckFails THEN IdentityErrors ELSE TimestampErrors)

C1_Witness ==
    /\ pc = "returned"
    /\ TimestampCheckFails
    /\ HasSession /\ session.New
    /\ ret.err = ErrTimestampInvalid

\* C2: with application-ID checking enabled, a request whose application ID
\* differs from the configured one is rejected with an identity error whatever
\* its timestamp is; the timestamp check is never reached.
C2_IdentityErrorRegardlessOfTimestamp ==
    (HasSession /\ ~alexa.IgnoreApplicationID
        /\ alexa.ApplicationID # session.ApplicationID) =>
        /\ pc = "returned"
        /\ ret.err \in IdentityErrors
        /\ IsNil(ret.resp)
        /\ ~vt.ran

C2_Witness ==
    /\ pc = "returned"
    /\ HasSession /\ HasRequest
    /\ ~alexa.IgnoreApplicationID /\ ~alexa.IgnoreTimestamp
    /\ alexa.ApplicationID # session.ApplicationID
    /\ ~Parseable
    /\ ret.err = ErrAppIDMismatch

\* C3: with application-ID checking enabled, the call fails with an identity
\* error exactly when the configured ID is empty, the request's ID is empty
\* (both empty included) or the two differ; it passes the identity check only
\* when both are non-empty and equal.
C3_EmptyOrUnequalIDsFail ==
    (HasSession /\ ~alexa.IgnoreApplicationID) =>
        ((pc = "returned" /\ ret.err \in IdentityErrors /\ IsNil(ret.resp))
         <=> (\/ alexa.ApplicationID = ""
              \/ session.ApplicationID = ""
              \/ alexa.ApplicationID # session.ApplicationID))

C3_Witness ==
    /\ pc = "returned"
    /\ HasSession /\ ~alexa.IgnoreApplicationID
    /\ alexa.ApplicationID = "" /\ session.ApplicationID = ""
    /\ ret.err = ErrAppIDEmpty

C5_Original ==
    (pc = "returned" /\ HasRequest /\ ~alexa.IgnoreTimestamp /\ ~Parseable) =>
        (ret.err = ErrTimestampParse /\ invoked = <<>>)

\* C5 as amended: with timestamp checking enabled, an unparseable timestamp
\* makes the call fail before any callback runs, whatever the tolerance is;
\* the error is the parse error when the application-ID check has passed or is
\* disabled, and the identity error otherwise.
C5_UnparseableTimestampFails ==
    (HasRequest /\ pc \notin {"verifyTimestamp", "panicked"}
        /\ ~alexa.IgnoreTimestamp /\ ~Parseable) =>
        /\ pc = "returned"
        /\ IsNil(ret.resp)
        /\ invoked = <<>>
        /\ IF alexa.IgnoreApplicationID \/ IDsMatch
           THEN ret.err = ErrTimestampParse
           ELSE ret.err \in IdentityErrors

C5_Witness ==
    /\ pc = "returned"
    /\ HasRequest /\ ~Parseable
    /\ vt.ran /\ vt.tolerance = 0
    /\ ret.err = ErrTimestampParse

\* C6: each disable flag switches off its own check and only that one.  With
\* IgnoreApplicationID the call never fails with an identity error, with
\* IgnoreTimestamp it never fails with a timestamp error; IgnoreApplicationID
\* leaves the timestamp check running and failing on a bad timestamp, and
\* IgnoreTimestamp leaves the identity check failing on bad IDs.
C6_FlagsDisableOwnCheckOnly ==
    /\ (pc # "idle" /\ alexa.IgnoreApplicationID) => ret.err \notin IdentityErrors
    /\ (pc # "idle" /\ alexa.IgnoreTimestamp) =>
          (ret.err \notin TimestampErrors /\ ~vt.ran)
    /\ (HasRequest /\ pc # "verifyTimestamp"
          /\ alexa.IgnoreApplicationID /\ ~alexa.IgnoreTimestamp) =>
          /\ vt.ran
          /\ TimestampCheckFails =>
                (pc = "returned" /\ ret.err \in TimestampErrors)
    /\ (HasSession /\ alexa.IgnoreTimestamp /\ ~alexa.IgnoreApplicationID
          /\ ~IDsMatch) =>
          (pc = "returned" /\ ret.err \in IdentityErrors)

C6_Witness ==
    /\ pc = "returned"
    /\ HasSession /\ HasRequest
    /\ alexa.IgnoreApplicationID /\ alexa.IgnoreTimestamp
    /\ alexa.ApplicationID # session.ApplicationID
    /\ ~Parseable
    /\ ret.err = NoErr /\ ~IsNil(ret.resp)

\* the request is addressed to this skill and fresh: matching non-empty IDs
\* and a timestamp within the tolerance at every reading of the call
ValidRequest ==
    /\ HasSession /\ HasRequest
    /\ IDsMatch
    /\ Parseable
    /\ \A now \in NowsRead : Distance(now) <= ToleranceRead * Res
\* a non-nil response whose ShouldSessionEnd is true unless the handler wrote it
SucceedsWithDefaultFlag ==
    /\ ret.err = NoErr
    /\ ~IsNil(ret.resp)
    /\ Deref(ret.resp).Response.ShouldSessionEnd =
          ~(\E i \in DOMAIN opsDone : opsDone[i] = "ShouldSessionEnd")

\* C7 as claimed: every request with matching non-empty application IDs and a
\* timestamp within tolerance succeeds, with a non-nil response whose
\* ShouldSessionEnd is true unless a callback changed it.
C7_Original ==
    (pc = "returned" /\ ValidRequest) => SucceedsWithDefaultFlag

\* C7 as amended: such a request succeeds, with a non-nil response whose
\* ShouldSessionEnd is true unless a callback changed it, provided no invoked
\* callback returns an error.
C7_ValidRequestSucceeds ==
    (pc = "returned" /\ ValidRequest /\ ret.err \notin CallbackErrors) =>
        SucceedsWithDefaultFlag

C7_Witness ==
    /\ pc = "returned"
    /\ ValidRequest
    /\ ~alexa.IgnoreApplicationID /\ ~alexa.IgnoreTimestamp
    /\ invoked = <<"OnIntent">>
    /\ ret.err = NoErr
    /\ Deref(ret.resp).Response.ShouldSessionEnd

\* C8: in a call that has passed validation and prepared its response,
\* OnSessionStarted has been invoked if and only if Session.New is true,
\* whatever the request type is.
C8_SessionStartedIffNew ==
    Validated => (WasInvoked("OnSessionStarted") <=> session.New)

C8_Witness ==
    /\ pc = "returned"
    /\ Validated /\ HasRequest
    /\ session.New
    /\ request.Type \notin {launchRequestName, intentRequestName, sessionEndedRequestName}
    /\ invoked = <<"OnSessionStarted">>
    /\ ret.err = NoErr

\* the lifecycle callbacks the call invoked, in order
LifecycleInvoked == SelectSeq(invoked, IsLifecycle)

\* C9 as claimed: in a validated call in which OnSessionStarted, if invoked,
\* succeeds, exactly one lifecycle callback is invoked.
C9_Original ==
    (pc = "returned" /\ Validated /\ HasRequest
        /\ ret.err # CallbackErr("OnSessionStarted")) =>
        Len(LifecycleInvoked) = 1

\* C9 as amended: in such a call whose Request.Type is LaunchRequest,
\* IntentRequest or SessionEndedRequest, exactly one lifecycle callback is
\* invoked, the one matching the type, and for any other type none is.
C9_LifecycleMatchesType ==
    (pc = "returned" /\ Validated /\ HasRequest
        /\ ret.err # CallbackErr("OnSessionStarted")) =>
        LifecycleInvoked =
            (IF request.Type = "LaunchRequest" THEN <<"OnLaunch">>
             ELSE IF request.Type = "IntentRequest" THEN <<"OnIntent">>
             ELSE IF request.Type = "SessionEndedRequest" THEN <<"OnSessionEnded">>
             ELSE <<>>)

C9_Witness ==
    /\ pc = "returned"
    /\ Validated /\ HasRequest
    /\ request.Type = "SessionEndedRequest"
    /\ invoked = <<"OnSessionStarted", "OnSessionEnded">>
    /\ ret.err = NoErr

\* a validated call that returned, for a request of an unrecognised type
UnrecognisedTypeReturned ==
    /\ pc = "returned"
    /\ Validated /\ HasRequest
    /\ request.Type \notin {"LaunchRequest", "IntentRequest", "SessionEndedRequest"}

\* C10 as claimed: for a validated request of an unrecognised type no
\* lifecycle callback is invoked, the call returns no error, and when the
\* session is not new the returned Response is at its prepared defaults.
C10_Original ==
    UnrecognisedTypeReturned =>
        /\ LifecycleInvoked = <<>>
        /\ ret.err = NoErr
        /\ ~session.New => Deref(ret.resp).Response = DefaultResponse

\* C10 as amended: for such a request no lifecycle callback is invoked; the
\* call returns no error unless the session is new and OnSessionStarted
\* returned one, which is then the error returned; and when the session is
\* not new the returned Response is at its prepared defaults.
C10_UnrecognisedTypeIsNoError ==
    UnrecognisedTypeReturned =>
        /\ LifecycleInvoked = <<>>
        /\ \/ ret.err = NoErr
           \/ session.New /\ ret.err = CallbackErr("OnSessionStarted")
        /\ ~session.New =>
              (ret.err = NoErr /\ Deref(ret.resp).Response = DefaultResponse)

C10_Witness ==
    /\ UnrecognisedTypeReturned
    /\ ~session.New
    /\ invoked = <<>>
    /\ ret.err = NoErr
    /\ Deref(ret.resp).Response = DefaultResponse

\* the handler wrote member during the call
Wrote(member) == \E i \in DOMAIN opsDone : opsDone[i] = member

\* C11: whenever an invoked callback returns an error, ProcessRequest returns
\* that same error together with a nil ResponseEnvelope: every step in which
\* a callback returns an error ends the call with exactly that error and no
\* response, and a call that ended with a callback's error carries the error
\* of the callback invoked last and hands nothing the callbacks wrote to the
\* caller.
C11_CallbackErrorReturnedUnchanged ==
    /\ [][\A err \in CallbackErrors :
            CallbackReturn(err) =>
                (pc' = "returned" /\ ret'.err = err /\ IsNil(ret'.resp))]_vars
    /\ [](ret.err \in CallbackErrors =>
            /\ pc = "returned"
            /\ IsNil(ret.resp)
            /\ invoked # <<>>
            /\ ret.err = CallbackErr(invoked[Len(invoked)]))

C11_Witness ==
    /\ pc = "returned"
    /\ ret.err = CallbackErr("OnIntent")
    /\ IsNil(ret.resp)
    /\ Wrote("OutputSpeech")
    /\ ~IsNil(response.OutputSpeech)

\* C12: for a new session OnSessionStarted is the first callback invoked; no
\* lifecycle callback has been invoked while it runs or after it returned an
\* error; and the step in which it returns an error ends the call.
C12_SessionStartedRunsFirst ==
    /\ []((Validated /\ session.New) =>
            /\ invoked # <<>>
            /\ invoked[1] = "OnSessionStarted"
            /\ (pc = "OnSessionStarted" \/ ret.err = CallbackErr("OnSessionStarted"))
                  => invoked = <<"OnSessionStarted">>
            /\ LifecycleInvoked # <<>> =>
                  (Len(invoked) = 2 /\ IsLifecycle(invoked[2])))
    /\ [][(pc = "OnSessionStarted"
            /\ CallbackReturn(CallbackErr("OnSessionStarted"))) =>
                (pc' = "returned" /\ invoked' = <<"OnSessionStarted">>)]_vars

C12_Witness ==
    /\ pc = "returned"
    /\ Validated /\ HasRequest
    /\ session.New
    /\ request.Type = "LaunchRequest"
    /\ invoked = <<"OnSessionStarted">>
    /\ ret.err = CallbackErr("OnSessionStarted")

\* C13: on success the returned SessionAttributes holds exactly the pairs of
\* Session.Attributes.String as it stands after the last callback: the
\* attribute a callback set is there with its final value, an attribute no
\* callback touched is there unchanged, and there is no other key.
C13_AttributesCopiedExactly ==
    (pc = "returned" /\ ret.err = NoErr) =>
        LET out == Deref(ret.resp).SessionAttributes
        IN  /\ ~IsNil(out)
            /\ Deref(out) = Deref(session.Attributes)
            /\ Deref(out) \in
                  (IF Wrote("Attributes")
                   THEN {{<<"myNewAttr", "Set123">>},
                         {<<"k1", "v1">>, <<"myNewAttr", "Set123">>}}
                   ELSE {{}, {<<"k1", "v1">>, <<"myNewAttr", "Old">>}})

C13_Witness ==
    /\ pc = "returned"
    /\ ret.err = NoErr
    /\ invoked = <<"OnSessionStarted", "OnIntent">>
    /\ Wrote("Attributes")
    /\ Deref(Deref(ret.resp).SessionAttributes) =
          {<<"k1", "v1">>, <<"myNewAttr", "Set123">>}

\* C14: a call with a nil request envelope returns ErrRequestEnvelopeNil and
\* a nil response whatever the configuration flags are, and invokes no
\* callback.
C14_NilEnvelopeRejected ==
    (pc # "idle" /\ IsNil(requestEnv)) =>
        /\ pc = "returned"
        /\ ret = [resp |-> Nil, err |-> ErrRequestEnvelopeNil]
        /\ invoked = <<>>

C14_Witness ==
    /\ pc = "returned"
    /\ IsNil(requestEnv)
    /\ alexa.IgnoreApplicationID /\ alexa.IgnoreTimestamp
    /\ ret.err = ErrRequestEnvelopeNil

Verdict(now, tolerance) == timestampCheck(alexa, requestEnv, now, tolerance)

\* C16: operations on one Alexa instance never change the outcome of a
\* ProcessRequest call running on a different instance: no
\* SetTimestampTolerance on another instance, made while the call is in
\* flight, changes the verdict the call's timestamp check is about to give.
C16_InstancesIndependent ==
    [][\A a \in AlexaConfigs, n \in Tolerances :
          (pc = "verifyTimestamp" /\ HasRequest /\ a # alexa
              /\ SetTimestampTolerance(a, n)) =>
              \A now \in Nows :
                  Verdict(now, timestampTolerance') = Verdict(now, timestampTolerance)]_vars

\* a call is waiting at its enabled timestamp check
AtTimestampCheck ==
    pc = "verifyTimestamp" /\ HasRequest /\ ~alexa.IgnoreTimestamp

\* C17: a SetTimestampTolerance call may fall between the entry of a
\* ProcessRequest call and its timestamp check, and the verdict follows the
\* interleaving.  From every state in which a call waits at the timestamp
\* check, both continuations exist: the check can run at once, reading the
\* tolerance as it stands, and the setter can run first with any value,
\* leaving the same call waiting with the new tolerance; and the check's
\* verdict is the comparison against the value it reads.
C17_VerdictDependsOnInterleaving ==
    /\ [](AtTimestampCheck =>
            /\ \A now \in Nows :
                  ENABLED (VerifyTimestamp(now) /\ vt'.tolerance = timestampTolerance)
            /\ \A a \in AlexaConfigs, n \in Tolerances :
                  ENABLED (/\ SetTimestampTolerance(a, n)
                           /\ timestampTolerance' = n
                           /\ pc' = "verifyTimestamp"))
    /\ [][\A now \in Nows :
            (AtTimestampCheck /\ VerifyTimestamp(now)) =>
                ret'.err = Verdict(now, timestampTolerance)]_vars

\* a call entered under tolerance 150 that the setter has overtaken: the
\* timestamp, accepted under the tolerance of entry, is now rejected
C17_Witness ==
    /\ AtTimestampCheck
    /\ entryTolerance = Ptr(150)
    /\ timestampTolerance = 0
    /\ \E now \in Nows :
          /\ Verdict(now, Deref(entryTolerance)) = NoErr
          /\ Verdict(now, timestampTolerance) = ErrTimestampInvalid

\* ---- claims about the builder, checked under SpecBuilder
IsSpeechCall(c) == c.op \in {"SetOutputText", "SetOutputSSML"}
IsCardCall(c) == c.op \in {"SetSimpleCard", "SetStandardCard", "SetLinkAccountCard"}
IsDirectiveCall(c) == c.op \in {"AddAudioPlayer", "AddDialogDirective"}
SpeechCalls == SelectSeq(calls, IsSpeechCall)
CardCalls == SelectSeq(calls, IsCardCall)
DirectiveCalls == SelectSeq(calls, IsDirectiveCall)

\* C18: output speech is one slot with two exclusive variants.  After any
\* sequence of builder calls OutputSpeech is nil when no output-speech setter
\* was called, and otherwise reflects the last such call alone: Type
\* PlainText with that call's Text and an empty SSML after SetOutputText,
\* Type SSML with that call's SSML and an empty Text after SetOutputSSML.
C18_OutputSpeechIsLastCall ==
    IF SpeechCalls = <<>> THEN IsNil(built.OutputSpeech)
    ELSE LET last == SpeechCalls[Len(SpeechCalls)]
         IN  /\ ~IsNil(built.OutputSpeech)
             /\ Deref(built.OutputSpeech) =
                   (IF last.op = "SetOutputText"
                    THEN [Type |-> "PlainText", Text |-> last.args[1], SSML |-> ""]
                    ELSE [Type |-> "SSML", Text |-> "", SSML |-> last.args[1]])

C18_Witness ==
    /\ Len(SpeechCalls) = 3
    /\ SpeechCalls[1].op = "SetOutputSSML"
    /\ SpeechCalls[2].op = "SetOutputText" /\ SpeechCalls[2].args[1] = "Response Text"
    /\ SpeechCalls[3].op = "SetOutputSSML"
    /\ Deref(built.OutputSpeech).Type = "SSML"
    /\ Deref(built.OutputSpeech).Text = ""

\* C19: card setters are last-call-wins with no merging.  After any sequence
\* of builder calls Card is nil when no card setter was called, and otherwise
\* is the card the last card setter produces on an empty Response: a simple
\* card has no body text and no image, a link-account card has no title,
\* content, text or image.
C19_CardIsLastCall ==
    IF CardCalls = <<>> THEN IsNil(built.Card)
    ELSE LET last == CardCalls[Len(CardCalls)]
             alone ==
                 IF last.op = "SetSimpleCard"
                 THEN SetSimpleCard(NewResponse, last.args[1], last.args[2])
                 ELSE IF last.op = "SetStandardCard"
                 THEN SetStandardCard(NewResponse, last.args[1], last.args[2],
                                      last.args[3], last.args[4])
                 ELSE SetLinkAccountCard(NewResponse)
             card == Deref(built.Card)
         IN  /\ ~IsNil(built.Card)
             /\ built.Card = alone.Card
             /\ last.op = "SetSimpleCard" =>
                   /\ card.Type = "Simple"
                   /\ card.Title = last.args[1] /\ card.Content = last.args[2]
                   /\ card.Text = "" /\ IsNil(card.Image)
             /\ last.op = "SetStandardCard" =>
                   /\ card.Type = "Standard"
                   /\ card.Title = last.args[1] /\ card.Text = last.args[2]
                   /\ card.Content = ""
                   /\ card.Image = Ptr([SmallImageURL |-> last.args[3],
                                         LargeImageURL |-> last.args[4]])
             /\ last.op = "SetLinkAccountCard" =>
                   /\ card.Type = "LinkAccount"
                   /\ card.Title = "" /\ card.Content = "" /\ card.Text = ""
                   /\ IsNil(card.Image)

C19_Witness ==
    /\ Len(CardCalls) = 2
    /\ CardCalls[1].op = "SetStandardCard"
    /\ CardCalls[2].op = "SetSimpleCard"
    /\ Deref(built.Card).Type = "Simple"
    /\ Deref(built.Card).Text = ""
    /\ IsNil(Deref(built.Card).Image)

\* the directive a call appends: its type discriminator and its own fields
DirectiveOf(c) ==
    IF c.op = "AddAudioPlayer"
    THEN [Kind |-> "AudioPlayerDirective", Type |-> c.args[1],
          PlayBehavior |-> c.args[2],
          AudioItem |-> Ptr([Stream |-> [Token |-> c.args[3], URL |-> c.args[4],
                                         OffsetInMilliseconds |-> c.args[5]]]),
          SlotToElicit |-> "", SlotToConfirm |-> "", UpdatedIntent |-> Nil]
    ELSE [Kind |-> "DialogDirective", Type |-> c.args[1], PlayBehavior |-> "",
          AudioItem |-> Nil,
          SlotToElicit |-> c.args[2], SlotToConfirm |-> c.args[3],
          UpdatedIntent |-> c.args[4]]

\* C20: directive appends are additive and order-preserving.  After any
\* sequence of builder calls Directives has one element per AddAudioPlayer
\* or AddDialogDirective call, in call order, each with the type
\* discriminator and the fields of its own call.
C20_DirectivesAreTheAppends ==
    /\ Len(built.Directives) = Len(DirectiveCalls)
    /\ \A i \in DOMAIN DirectiveCalls :
          built.Directives[i] = DirectiveOf(DirectiveCalls[i])

C20_Witness ==
    /\ Len(calls) = 3
    /\ calls[1].op = "AddAudioPlayer" /\ calls[1].args[3] = "track2-long-audio"
    /\ calls[2].op = "AddDialogDirective" /\ calls[2].args[4] # Nil
    /\ calls[3].op = "AddAudioPlayer" /\ calls[3].args[3] = "track3-long-audio"
    /\ Len(built.Directives) = 3
    /\ built.Directives[1].AudioItem[1].Stream.Token = "track2-long-audio"
    /\ built.Directives[2].Type = "Dialog.Delegate"
    /\ built.Directives[3].AudioItem[1].Stream.Token = "track3-long-audio"

\* the keys of a JSON object
Keys(obj) == {m[1] : m \in obj}

\* C21: a dialog directive appended with no intent and empty slot names
\* serialises to its type alone, with no updatedIntent, slotToElicit or
\* slotToConfirm member; one appended with an intent carries that intent,
\* serialised, as updatedIntent.
C21_DialogDirectiveOmitsEmpty ==
    \A i \in DOMAIN DirectiveCalls :
        DirectiveCalls[i].op = "AddDialogDirective" =>
            LET c == DirectiveCalls[i]
                json == marshalDialogDirective(built.Directives[i])
            IN  /\ <<"type", c.args[1]>> \in json
                /\ (c.args[2] = "" /\ c.args[3] = "" /\ IsNil(c.args[4])) =>
                      Keys(json) = {"type"}
                /\ ~IsNil(c.args[4]) =>
                      /\ "updatedIntent" \in Keys(json)
                      /\ \A m \in json : m[1] = "updatedIntent" =>
                            m[2] = {<<"name", "PlanMyTrip">>,
                                    <<"confirmationStatus", "NONE">>,
                                    <<"slots", {"travelDate"}>>}

C21_Witness ==
    /\ Len(calls) = 2
    /\ calls[1].op = "AddDialogDirective" /\ IsNil(calls[1].args[4])
    /\ calls[2].op = "AddDialogDirective" /\ ~IsNil(calls[2].args[4])
    /\ marshalDialogDirective(built.Directives[1]) = {<<"type", "Dialog.Delegate">>}
    /\ "updatedIntent" \in Keys(marshalDialogDirective(built.Directives[2]))

\* the call made in this step repeats the call made just before it
RepeatsLastCall ==
    /\ calls # <<>>
    /\ Len(calls') = Len(calls) + 1
    /\ calls'[Len(calls')].op = calls[Len(calls)].op
    /\ calls'[Len(calls')].args = calls[Len(calls)].args

\* C22 as claimed: every builder operation is idempotent; a call that repeats
\* the call just made leaves the Response as it was.
C22_Original ==
    [][RepeatsLastCall => built' = built]_vars

\* C22 as amended: the card, output-speech and reprompt setters are
\* idempotent; AddAudioPlayer and AddDialogDirective are not: a repeated
\* call appends a second, equal directive and changes nothing else.
C22_SettersIdempotentAppendsNot ==
    [][RepeatsLastCall =>
          IF IsDirectiveCall(calls[Len(calls)])
          THEN /\ built'.Directives =
                     Append(built.Directives, built.Directives[Len(built.Directives)])
               /\ built' = [built EXCEPT !.Directives = built'.Directives]
          ELSE built' = built]_vars

C22_Witness ==
    /\ Len(calls) = 3
    /\ calls[1].op = "AddAudioPlayer"
    /\ calls[2].op = "SetStandardCard"
    /\ calls[3].op = "SetStandardCard"
    /\ Len(built.Directives) = 1
    /\ Deref(built.Card).Type = "Standard"

\* the builder call made in this step
ThisCall == calls'[Len(calls')]

\* C23: each builder operation changes only its own field group.  A card
\* setter leaves OutputSpeech, Reprompt, Directives and ShouldSessionEnd as
\* they were; an output-speech setter leaves Card, Reprompt, Directives and
\* ShouldSessionEnd; a reprompt setter leaves OutputSpeech, Card, Directives
\* and ShouldSessionEnd; a directive append leaves OutputSpeech, Card,
\* Reprompt and ShouldSessionEnd.
C23_OwnFieldGroupOnly ==
    [][Len(calls') = Len(calls) + 1 =>
          /\ built'.ShouldSessionEnd = built.ShouldSessionEnd
          /\ IsCardCall(ThisCall) \/ built'.Card = built.Card
          /\ IsSpeechCall(ThisCall) \/ built'.OutputSpeech = built.OutputSpeech
          /\ IsDirectiveCall(ThisCall) \/ built'.Directives = built.Directives
          /\ ThisCall.op \in {"SetRepromptText", "SetRepromptSSML"}
                \/ built'.Reprompt = built.Reprompt]_vars

C23_Witness ==
    /\ Len(calls) = 3
    /\ calls[1].op = "SetOutputText"
    /\ calls[2].op = "AddAudioPlayer"
    /\ calls[3].op = "SetRepromptSSML"
    /\ built.ShouldSessionEnd
    /\ Deref(built.OutputSpeech).Text = "Response Text"
    /\ Len(built.Directives) = 1
    /\ IsNil(built.Card)
    /\ ~IsNil(built.Reprompt)

\* what a write of the handler, named by the member it writes, does to r
ApplyWrite(r, member) ==
    IF member = "OutputSpeech" THEN SetOutputText(r, "Response Text")
    ELSE IF member = "Card" THEN SetSimpleCard(r, "Simple Title", "Simple Content")
    ELSE IF member = "Directives"
    THEN AddAudioPlayer(r, "AudioPlayer.Play", "REPLACE_ALL", "track2-long-audio",
                        "https://sample-song-2.mp3", 100)
    ELSE IF member = "ShouldSessionEnd" THEN [r EXCEPT !.ShouldSessionEnd = FALSE]
    ELSE r

\* r after the writes ops, in order
RECURSIVE Replay(_, _)
Replay(r, ops) ==
    IF ops = <<>> THEN r ELSE Replay(ApplyWrite(r, Head(ops)), Tail(ops))

Ended == pc \in {"returned", "panicked"}

\* C25: every call ends in exactly one of two terminal states: success, with
\* a non-nil ResponseEnvelope and a nil error, or failure, with a nil
\* ResponseEnvelope and a non-nil error.
C25_SuccessOrFailure ==
    Ended =>
        \/ pc = "returned" /\ ~IsNil(ret.resp) /\ ret.err = NoErr
        \/ pc = "returned" /\ IsNil(ret.resp) /\ ret.err # NoErr

\* C25 for the calls that return: a response or an error, never both and
\* never neither.
C25_ReturnsOneOfTwo ==
    pc = "returned" => (IsNil(ret.resp) <=> ret.err # NoErr)

\* C29: for every non-nil request envelope, an absent Session or Request
\* included, and under every combination of the two flags, the call returns
\* an error value and does not end abnormally.
C29_NoAbnormalEnd ==
    HasEnvelope => pc # "panicked"

\* the attribute map of the session of the call, before and after a step
AttributesNow == Deref(Deref(requestEnv).Session).Attributes
AttributesNext == Deref(Deref(requestEnv').Session).Attributes

\* C26: at every callback invocation Session.Attributes.String is non-nil.
\* The step that prepares the call and invokes the first callback replaces
\* a nil map by an empty one and keeps a map that was present, entries and
\* all; and the map is non-nil whenever a callback is invoked or running.
C26_AttributesNonNilInCallbacks ==
    /\ []((pc \in Callbacks \/ pc = "dispatch") => ~IsNil(session.Attributes))
    /\ [][(pc = "prepare" /\ pc' # "panicked") =>
            /\ ~IsNil(AttributesNext)
            /\ IF IsNil(AttributesNow) THEN Deref(AttributesNext) = {}
               ELSE AttributesNext = AttributesNow]_vars

C26_Witness ==
    /\ pc = "OnSessionStarted"
    /\ opsDone = <<>>
    /\ session.Attributes = Ptr({})

\* the step is a write of the running callback, not a step of ProcessRequest
CallbackWrites == pc \in Callbacks /\ pc' = pc

\* C27: ProcessRequest changes nothing in the request envelope except that
\* it sets an absent session-attribute map to the empty map.  requestEnv
\* holds the envelope as it was passed; no step of the call before its
\* prepare step and none after it changes the envelope, so that it is
\* unchanged when validation fails; the prepare step changes at most
\* Session.Attributes, and only from nil to empty.
C27_EnvelopeUnchangedButDefaulting ==
    [][(pc # "idle" /\ ~Ended /\ ~CallbackWrites) =>
          IF pc = "prepare" /\ pc' # "panicked" /\ IsNil(AttributesNow)
          THEN requestEnv' = Ptr([Deref(requestEnv) EXCEPT !.Session =
                    Ptr([Deref(@) EXCEPT !.Attributes = Ptr({})])])
          ELSE requestEnv' = requestEnv]_vars

C27_Witness ==
    /\ pc = "returned"
    /\ HasSession /\ HasRequest
    /\ ret.err = ErrTimestampInvalid
    /\ IsNil(session.Attributes)

\* C28: for a new session OnSessionStarted and the lifecycle callback work on
\* one Response.  The first callback invoked finds the Response at its
\* defaults; no step of ProcessRequest between and after the callbacks
\* changes the Response, so that what OnSessionStarted set is what the
\* lifecycle callback finds, and what the callbacks left is what a
\* successful call returns.
C28_CallbacksShareResponse ==
    /\ []((pc \in Callbacks /\ Len(invoked) = 1 /\ opsDone = <<>>) =>
            response = DefaultResponse)
    /\ [][(Validated /\ ~Ended /\ ~CallbackWrites) =>
            /\ ~IsNil(responseEnv')
            /\ Deref(responseEnv').Response = response]_vars
    /\ []((pc = "returned" /\ ret.err = NoErr) =>
            Deref(ret.resp).Response = response)

\* OnSessionStarted has set the output speech and returned, and the Response
\* that is about to be handed to the lifecycle callback holds it
C28_Witness ==
    /\ pc = "dispatch"
    /\ session.New
    /\ invoked = <<"OnSessionStarted">>
    /\ opsDone = <<"OutputSpeech">>
    /\ ~IsNil(response.OutputSpeech)
    /\ response.ShouldSessionEnd

\* C30: a negative tolerance makes the timestamp check reject every request.
\* A timestamp check that reads a negative tolerance fails, at distance 0
\* too, before any callback; under a negative tolerance every call with
\* timestamp checking enabled, on an envelope that has its Session and
\* Request, returns an error and no response; and a check that reads a
\* non-negative tolerance accepts a timestamp equal to the current time.
C30_NegativeToleranceRejectsAll ==
    /\ (vt.ran /\ vt.tolerance < 0) =>
          /\ pc = "returned"
          /\ ret.err \in TimestampErrors
          /\ IsNil(ret.resp)
          /\ invoked = <<>>
    /\ (HasSession /\ HasRequest /\ ~alexa.IgnoreTimestamp
          /\ pc # "verifyTimestamp" /\ ToleranceRead < 0) =>
          (pc = "returned" /\ ret.err # NoErr /\ IsNil(ret.resp))
    /\ (vt.ran /\ vt.tolerance >= 0 /\ Parseable /\ Distance(vt.now) = 0) =>
          ret.err \notin TimestampErrors

C30_Witness ==
    /\ pc = "returned"
    /\ vt.ran /\ vt.tolerance = -1
    /\ Parseable /\ Distance(vt.now) = 0
    /\ ret.err = ErrTimestampInvalid

====
